---- MODULE Spec2Model ----
(***************************************************************************)
(* A model of the Palia wiki question-answering bot.                       *)
(*                                                                         *)
(*   Answer engine   src/app/core/rag_engine.py   (RAGEngine)              *)
(*   Vector index    src/app/core/vector_store.py (VectorStore)            *)
(*   Crawl planner   src/scraper/wiki_scraper.py  (WikiScraper)            *)
(*   Chunker         src/scraper/chunker.py       (create_chunks)          *)
(*                                                                         *)
(* Text is modelled by TLA+ strings: Len, SubSeq and \o act on them as on  *)
(* Python str values, so slicing, prefixes and suffixes are computed, not  *)
(* assumed.                                                                *)
(***************************************************************************)
EXTENDS Integers, Sequences, FiniteSets, TLC

VARIABLES
    index,      \* the collection of the vector store: sequence of stored records
    cache,      \* RAGEngine.cache (TTLCache): entries in least-recently-used order
    now,        \* the cache's timer
    last,       \* the most recent engine call: its inputs and what it returned
    first,      \* a remembered earlier query call (history, for two-call properties)
    stage,      \* "engine" while the engine runs; "ready"/"done" around one
                \* application of a function to drawn inputs
    call,       \* the inputs drawn for that application
    result,     \* what the function returned
    scrape,     \* one run of WikiScraper.scrape_all: its position and locals
    main,       \* one run of run_scraper.main: its position, arguments, locals
    calls       \* two calls of RAGEngine.query under way at once: their
                \* positions and locals

engineVars == <<index, cache, now, last, first>>

applyVars == <<stage, call, result>>

vars == <<index, cache, now, last, first, stage, call, result, scrape, main, calls>>

----------------------------------------------------------------------------
(* Bounds of the model *)

\* settings.max_response_length (config.py:39, default 400), scaled down
MaxResponseLength == 8
\* settings.retrieval_k (config.py:38, default 5), scaled down
RetrievalK == 2
\* the k of get_sources (rag_engine.py:150, default 3), scaled down
SourcesK == 3
\* settings.cache_max_size (config.py:35, default 1000), scaled down
CacheMaxSize == 1
\* settings.cache_ttl (config.py:34, default 3600 s), in ticks of the timer
CacheTtl == 1
\* the timer stops here
MaxTime == 1
\* longest chunk list handed to add_chunks in one call
MaxAdd == 1
\* longest question, in characters
MaxQuestionLen == 2
\* longest text the generation provider returns, in characters
MaxAnswerLen == 10

----------------------------------------------------------------------------
(* Python str and list helpers *)

Min(a, b) == IF a < b THEN a ELSE b

Max(a, b) == IF a > b THEN a ELSE b

\* s[:n] of Python: a negative n counts from the end, and the slice is clamped
PySlicePrefix(s, n) ==
    LET m == IF n < 0 THEN Max(0, Len(s) + n) ELSE Min(n, Len(s))
    IN  SubSeq(s, 1, m)

\* s.endswith(t)
EndsWith(s, t) ==
    /\ Len(t) <= Len(s)
    /\ SubSeq(s, Len(s) - Len(t) + 1, Len(s)) = t

\* s.startswith(t)
StartsWith(s, t) ==
    /\ Len(t) <= Len(s)
    /\ SubSeq(s, 1, Len(t)) = t

\* t in s
Contains(s, t) ==
    \E i \in 1..(Len(s) - Len(t) + 1) : SubSeq(s, i, i + Len(t) - 1) = t

\* all strings of length at most n over the characters of alphabet
RECURSIVE StringsUpTo(_, _)
StringsUpTo(alphabet, n) ==
    IF n = 0 THEN {""}
    ELSE LET shorter == StringsUpTo(alphabet, n - 1)
         IN  shorter \cup {s \o c : s \in shorter, c \in alphabet}

LOWER_LETTERS == "abcdefghijklmnopqrstuvwxyz"

UPPER_LETTERS == "ABCDEFGHIJKLMNOPQRSTUVWXYZ"

IsLower(c) == \E i \in 1..26 : SubSeq(LOWER_LETTERS, i, i) = c

IsUpper(c) == \E i \in 1..26 : SubSeq(UPPER_LETTERS, i, i) = c

\* str.lower() on one character
LowerChar(c) ==
    IF IsUpper(c)
    THEN LET i == CHOOSE i \in 1..26 : SubSeq(UPPER_LETTERS, i, i) = c
         IN  SubSeq(LOWER_LETTERS, i, i)
    ELSE c

\* str.upper() on one character
UpperChar(c) ==
    IF IsLower(c)
    THEN LET i == CHOOSE i \in 1..26 : SubSeq(LOWER_LETTERS, i, i) = c
         IN  SubSeq(UPPER_LETTERS, i, i)
    ELSE c

\* str.lower()
RECURSIVE Lower(_)
Lower(s) ==
    IF s = "" THEN ""
    ELSE LowerChar(SubSeq(s, 1, 1)) \o Lower(SubSeq(s, 2, Len(s)))

IsSpace(c) == c \in {" ", "\t", "\n"}

\* str.lstrip()
RECURSIVE LStrip(_)
LStrip(s) ==
    IF s # "" /\ IsSpace(SubSeq(s, 1, 1)) THEN LStrip(SubSeq(s, 2, Len(s))) ELSE s

\* str.rstrip()
RECURSIVE RStrip(_)
RStrip(s) ==
    IF s # "" /\ IsSpace(SubSeq(s, Len(s), Len(s)))
    THEN RStrip(SubSeq(s, 1, Len(s) - 1)) ELSE s

\* str.strip()
Strip(s) == LStrip(RStrip(s))

\* dict.get(key, default)
Get(d, key, default) == IF key \in DOMAIN d THEN d[key] ELSE default

\* hashlib.md5(...).hexdigest(): a function of its input alone, taken injective
\* on the short inputs of the model
Md5Hex(s) == "md5:" \o s

----------------------------------------------------------------------------
(* Optional values: None is the empty tuple, a value x is <<x>> *)

None == <<>>

Some(x) == <<x>>

\* Python truthiness of an Optional[str]: None and "" are both false
Truthy(opt) == opt # None /\ opt[1] # ""

----------------------------------------------------------------------------
(* The response cache: cachetools.TTLCache(maxsize, ttl), rag_engine.py:41-44.
   An entry is [key, value, expires]; the sequence is in least-recently-used
   order, the head being the next entry a full cache evicts. *)

CacheKeys(c) == {c[i].key : i \in 1..Len(c)}

IsLive(e, t) == t < e.expires

\* TTLCache.expire(time): drop every entry whose lifetime has ended
cache_expire(c, t) == SelectSeq(c, LAMBDA e : IsLive(e, t))

\* key in cache: present and not expired; the order is left alone
cache_contains(c, key, t) ==
    \E i \in 1..Len(c) : c[i].key = key /\ IsLive(c[i], t)

\* the entry stored under key
cache_entry(c, key) == c[CHOOSE i \in 1..Len(c) : c[i].key = key]

\* cache[key] on a live entry: the value, the entry becoming most recently used
cache_getitem(c, key, t) ==
    [value |-> cache_entry(c, key).value,
     cache |-> SelectSeq(c, LAMBDA e : e.key # key) \o <<cache_entry(c, key)>>]

\* cache[key] = value: expire, make room by evicting least-recently-used
\* entries, store with a fresh lifetime
cache_setitem(c, key, value, t) ==
    LET live  == cache_expire(c, t)
        rest  == SelectSeq(live, LAMBDA e : e.key # key)
        drop  == IF key \in CacheKeys(live) THEN 0
                 ELSE Max(0, Len(live) + 1 - CacheMaxSize)
        kept  == SubSeq(rest, drop + 1, Len(rest))
    IN  kept \o <<[key |-> key, value |-> value, expires |-> t + CacheTtl]>>

----------------------------------------------------------------------------
(* The vector index: VectorStore over a Chroma collection.  A stored record is
   [id, text, metadata]; metadata is a function from the keys present. *)

Chunk(text, metadata) == [text |-> text, metadata |-> metadata]

\* collection.add: a record whose id is already stored is not added again
collection_add(idx, records) ==
    idx \o SelectSeq(records,
                     LAMBDA r : \A i \in 1..Len(idx) : idx[i].id # r.id)

\* the batch size of add_chunks explored (the code's default is 100)
BatchSize == 2

\* no batch of an add_chunks call fails
NoFailure == [at |-> -1, step |-> "none"]

\* the loop of add_chunks from the batch that starts at i (0-based): the chunk
\* at i + j gets the id chunk_{i+j}.  failure names the batch whose
\* embed_documents or collection.add raises; the exception leaves the loop,
\* with that batch and the later ones not stored.
RECURSIVE add_batches(_, _, _, _, _)
add_batches(idx, chunks, i, batch_size, failure) ==
    IF i >= Len(chunks) THEN [index |-> idx, raised |-> FALSE]
    ELSE IF failure.at = i THEN [index |-> idx, raised |-> TRUE]
    ELSE LET batch == SubSeq(chunks, i + 1, Min(i + batch_size, Len(chunks)))
         IN  add_batches(
                 collection_add(idx,
                     [j \in 1..Len(batch) |->
                         [id |-> i + j - 1, text |-> batch[j].text,
                          metadata |-> batch[j].metadata]]),
                 chunks, i + batch_size, batch_size, failure)

\* VectorStore.add_chunks(chunks, batch_size) with one outcome of the embedding
\* and the store for each batch
add_chunks_run(idx, chunks, batch_size, failure) ==
    IF chunks = <<>> THEN [index |-> idx, raised |-> FALSE]
    ELSE add_batches(idx, chunks, 0, batch_size, failure)

\* VectorStore.add_chunks when the embedding and the store answer
add_chunks(idx, chunks) == add_chunks_run(idx, chunks, BatchSize, NoFailure).index

\* VectorStore.clear: the collection is deleted and created again, empty
clear(idx) == <<>>

\* VectorStore.count
count(idx) == Len(idx)

\* the orders in which n of the stored records can come back
Rankings(idx, n) ==
    {r \in [1..n -> 1..Len(idx)] : \A i, j \in 1..n : i # j => r[i] # r[j]}

\* the distances a query can have to a stored record; only their order matters
MaxDistance == 1

\* every way the stored records can lie around a query: a distance for each
DistanceMaps(idx) == [1..Len(idx) -> 0..MaxDistance]

\* collection.query(query_embeddings=[e], n_results=k): the min(k, count)
\* records nearest to the query, nearest first; records at the same distance
\* come in any order.  An empty collection gives no hit.
collection_query(idx, dist, k) ==
    LET n == Min(k, Len(idx))
    IN  {[i \in 1..n |->
            [document |-> idx[r[i]].text, metadata |-> idx[r[i]].metadata,
             distance |-> dist[r[i]]]]
          : r \in {q \in Rankings(idx, n) :
                     /\ \A i, j \in 1..n : i < j => dist[q[i]] <= dist[q[j]]
                     /\ \A p \in 1..Len(idx) :
                           (\A i \in 1..n : q[i] # p)
                               => \A i \in 1..n : dist[q[i]] <= dist[p]}}

\* similarity_search returning the hits in stored order
similarity_search_in_stored_order(idx, k) ==
    {[i \in 1..Min(k, Len(idx)) |->
         [text |-> idx[i].text, metadata |-> idx[i].metadata,
          distance |-> dist[i]]]
       : dist \in DistanceMaps(idx)}

\* VectorStore.similarity_search(query, k): the hits of collection.query as
\* text, metadata and distance.  How far each record is from the query is the
\* embedding's business: every distance map is possible.  The embedding of
\* the query is taken to succeed.
similarity_search(idx, k) ==
    UNION {{[i \in 1..Len(hits) |->
               [text |-> hits[i].document, metadata |-> hits[i].metadata,
                distance |-> hits[i].distance]]
             : hits \in collection_query(idx, dist, k)}
           : dist \in DistanceMaps(idx)}

----------------------------------------------------------------------------
(* The answer engine: RAGEngine *)

NOT_FOUND == "I couldn't find that info in the wiki yet."

SEPARATOR == " | "

ELLIPSIS == "..."

\* the key taken from the question trimmed, its case kept
_cache_key_case_kept(question) == Md5Hex(Strip(question))

\* RAGEngine._cache_key
_cache_key(question) == Md5Hex(Strip(Lower(question)))

\* the last non-empty url in rank order
RECURSIVE _get_last_source_url(_)
_get_last_source_url(chunks) ==
    IF chunks = <<>> THEN None
    ELSE IF Get(chunks[Len(chunks)].metadata, "url", "") # ""
         THEN Some(Get(chunks[Len(chunks)].metadata, "url", ""))
         ELSE _get_last_source_url(SubSeq(chunks, 1, Len(chunks) - 1))

\* RAGEngine._get_best_source_url: the first non-empty url in rank order
RECURSIVE _get_best_source_url(_)
_get_best_source_url(chunks) ==
    IF chunks = <<>> THEN None
    ELSE IF Get(Head(chunks).metadata, "url", "") # ""
         THEN Some(Get(Head(chunks).metadata, "url", ""))
         ELSE _get_best_source_url(Tail(chunks))

\* query, lines 128-135: the room left for the answer
max_answer_len(source_url, max_len) ==
    IF Truthy(source_url) THEN max_len - (Len(source_url[1]) + 3) ELSE max_len

\* query, lines 137-139: truncate the answer if needed
truncate_answer(answer, limit) ==
    IF Len(answer) > limit
    THEN PySlicePrefix(answer, limit - 3) \o ELLIPSIS
    ELSE answer

\* query, lines 141-143: append the wiki link
append_link(answer, source_url) ==
    IF Truthy(source_url) THEN answer \o SEPARATOR \o source_url[1] ELSE answer

\* query, lines 125-143: the final string composed from the generated answer
compose(answer, chunks, max_len) ==
    LET source_url == _get_best_source_url(chunks)
    IN  append_link(truncate_answer(answer, max_answer_len(source_url, max_len)),
                    source_url)

\* query with a miss stored like an answer
query_caching_miss(question, results, answer, c, t) ==
    LET cache_key == _cache_key(question)
    IN  IF cache_contains(c, cache_key, t)
        THEN [ret |-> cache_getitem(c, cache_key, t).value,
              cache |-> cache_getitem(c, cache_key, t).cache,
              gen_calls |-> 0, hit |-> TRUE, searched |-> FALSE]
        ELSE IF results = <<>>
        THEN [ret |-> NOT_FOUND,
              cache |-> cache_setitem(c, cache_key, NOT_FOUND, t),
              gen_calls |-> 0, hit |-> FALSE, searched |-> TRUE]
        ELSE [ret |-> compose(answer, results, MaxResponseLength),
              cache |-> cache_setitem(c, cache_key,
                           compose(answer, results, MaxResponseLength), t),
              gen_calls |-> 1, hit |-> FALSE, searched |-> TRUE]

\* query with the composed answer returned and never stored
query_without_store(question, results, answer, c, t) ==
    LET cache_key == _cache_key(question)
    IN  IF cache_contains(c, cache_key, t)
        THEN [ret |-> cache_getitem(c, cache_key, t).value,
              cache |-> cache_getitem(c, cache_key, t).cache,
              gen_calls |-> 0, hit |-> TRUE, searched |-> FALSE]
        ELSE IF results = <<>>
        THEN [ret |-> NOT_FOUND, cache |-> c,
              gen_calls |-> 0, hit |-> FALSE, searched |-> TRUE]
        ELSE [ret |-> compose(answer, results, MaxResponseLength),
              cache |-> c,
              gen_calls |-> 1, hit |-> FALSE, searched |-> TRUE]

\* RAGEngine.query as a function of the question, what the index search
\* returns (results), what the generation provider returns (answer), the cache
\* and the time: the string returned, the cache left behind, the number of
\* generation calls made and whether the cache answered
query(question, results, answer, c, t) ==
    LET cache_key == _cache_key(question)
    IN  IF cache_contains(c, cache_key, t)
        THEN [ret |-> cache_getitem(c, cache_key, t).value,
              cache |-> cache_getitem(c, cache_key, t).cache,
              gen_calls |-> 0, hit |-> TRUE, searched |-> FALSE]
        ELSE IF results = <<>>
        THEN [ret |-> NOT_FOUND, cache |-> c,
              gen_calls |-> 0, hit |-> FALSE, searched |-> TRUE]
        ELSE [ret |-> compose(answer, results, MaxResponseLength),
              cache |-> cache_setitem(c, cache_key,
                           compose(answer, results, MaxResponseLength), t),
              gen_calls |-> 1, hit |-> FALSE, searched |-> TRUE]

\* RAGEngine.get_sources: one entry per distinct non-empty url, first come
\* first kept
RECURSIVE dedup_sources(_, _)
dedup_sources(chunks, seen_urls) ==
    IF chunks = <<>> THEN <<>>
    ELSE LET url == Get(Head(chunks).metadata, "url", "")
         IN  IF url # "" /\ url \notin seen_urls
             THEN <<[title |-> Get(Head(chunks).metadata, "title", "Unknown"),
                     url |-> url,
                     section |-> Get(Head(chunks).metadata, "section", "")]>>
                  \o dedup_sources(Tail(chunks), seen_urls \cup {url})
             ELSE dedup_sources(Tail(chunks), seen_urls)

\* every chunk with a url listed, duplicates included
RECURSIVE every_source(_)
every_source(chunks) ==
    IF chunks = <<>> THEN <<>>
    ELSE LET url == Get(Head(chunks).metadata, "url", "")
         IN  IF url # ""
             THEN <<[title |-> Get(Head(chunks).metadata, "title", "Unknown"),
                     url |-> url,
                     section |-> Get(Head(chunks).metadata, "section", "")]>>
                  \o every_source(Tail(chunks))
             ELSE every_source(Tail(chunks))

\* RAGEngine.get_sources, lines 162-175, on what the search returned
get_sources(results) == dedup_sources(results, {})

----------------------------------------------------------------------------
(* Inputs of the engine *)

\* every question of at most MaxQuestionLen characters: two cases of a letter
\* and a blank
Questions == StringsUpTo({"Q", "q", " "}, MaxQuestionLen) \ {""}

\* the questions the running engine is asked: two spellings of one question
\* and another question
AskedQuestions == {"Q", "q ", "qq"}

\* what the generation provider returns, stripped (rag_engine.py:86)
AnswerText == "abcdefghijklmnopqrstuvwxyz"

Answers == {SubSeq(AnswerText, 1, n) : n \in 0..MaxAnswerLen}

\* the answers the running engine is given: short and over the budget
GivenAnswers == {"ab", SubSeq(AnswerText, 1, MaxAnswerLen)}

SHORT_URL == "/A"

MID_URL == "/Ccc"

LONG_URL == "/Bbbbb"

\* chunks as the index can hold them: two sections of one page, other pages,
\* and records whose metadata has an empty url or none
ChunkPool ==
    {Chunk("A1", [title |-> "A", url |-> SHORT_URL, section |-> "infobox"]),
     Chunk("A2", [title |-> "A", url |-> SHORT_URL, section |-> "Habitat"]),
     Chunk("B1", [title |-> "B", url |-> LONG_URL, section |-> "Overview"]),
     Chunk("C1", [title |-> "C", url |-> MID_URL, section |-> "Overview"]),
     Chunk("D1", [title |-> "D", url |-> "", section |-> "Overview"]),
     Chunk("E1", [title |-> "E"])}

\* the chunk added to the running engine's index
AddedPool ==
    {Chunk("A1", [title |-> "A", url |-> SHORT_URL, section |-> "infobox"])}

SeqsUpTo(S, n) == UNION {[1..m -> S] : m \in 0..n}

NoCall ==
    [op |-> "none", key |-> "", hit |-> FALSE, searched |-> FALSE,
     found |-> 0, ret |-> "", gen_calls |-> 0, after_first |-> FALSE,
     in_ttl |-> FALSE]

NoFirst ==
    [set |-> FALSE, key |-> "", ret |-> "", gen_calls |-> 0, expires |-> 0,
     cached |-> FALSE, evicted |-> FALSE, index_changed |-> FALSE]

\* no scrape run is under way
NoScrape ==
    [pc |-> "idle", sitemap |-> <<>>, max_pages |-> None, filtered |-> <<>>,
     urls |-> <<>>, pos |-> 0, all_chunks |-> <<>>, trace |-> <<>>]

\* no concurrent calls of query are under way
NoCalls == <<>>

\* run_scraper.main is not running
NoMain ==
    [pc |-> "idle", clear |-> FALSE, incremental |-> FALSE, max_pages |-> None,
     existing_urls |-> {}, error |-> "none"]

----------------------------------------------------------------------------
(* The engine as a state machine *)

EngineInit ==
    /\ index = <<>>
    /\ cache = <<>>
    /\ now = 0
    /\ last = NoCall
    /\ first = NoFirst

Init ==
    /\ EngineInit
    /\ scrape = NoScrape
    /\ main = NoMain
    /\ calls = NoCalls
    /\ stage = "engine"
    /\ call = <<>>
    /\ result = <<>>

\* one call of RAGEngine.query.  remember makes it the call that later calls
\* are compared with; one call of a run is remembered.
Query ==
    \E question \in AskedQuestions, answer \in GivenAnswers :
    \E remember \in (IF first.set THEN {FALSE} ELSE BOOLEAN) :
    \E results \in similarity_search(index, RetrievalK) :
        LET r   == query(question, results, answer, cache, now)
            key == _cache_key(question)
            gone == CacheKeys(cache_expire(cache, now)) \ CacheKeys(r.cache)
        IN  /\ cache' = r.cache
            /\ last' = [op |-> "query", key |-> key,
                        hit |-> r.hit, searched |-> r.searched,
                        found |-> IF r.searched THEN Len(results) ELSE 0,
                        ret |-> r.ret, gen_calls |-> r.gen_calls,
                        after_first |-> first.set,
                        in_ttl |-> first.set /\ now < first.expires]
            /\ first' =
                 IF remember
                 THEN [set |-> TRUE, key |-> key, ret |-> r.ret,
                       gen_calls |-> r.gen_calls,
                       expires |-> IF key \in CacheKeys(r.cache)
                                   THEN cache_entry(r.cache, key).expires
                                   ELSE now + CacheTtl,
                       cached |-> key \in CacheKeys(r.cache),
                       evicted |-> FALSE, index_changed |-> FALSE]
                 ELSE [first EXCEPT !.evicted = @ \/ (first.set /\ first.key \in gone)]
            /\ UNCHANGED <<index, now, applyVars, scrape, main, calls>>

\* one call of VectorStore.add_chunks
AddChunks ==
    \E chunks \in SeqsUpTo(AddedPool, MaxAdd) :
        /\ index' = add_chunks(index, chunks)
        /\ first' = [first EXCEPT !.index_changed = @ \/ (first.set /\ index' # index)]
        /\ UNCHANGED <<cache, now, last, applyVars, scrape, main, calls>>

\* one call of VectorStore.clear
ClearIndex ==
    /\ index' = clear(index)
    /\ first' = [first EXCEPT !.index_changed = @ \/ (first.set /\ index' # index)]
    /\ UNCHANGED <<cache, now, last, applyVars, scrape, main, calls>>

\* time passes
Tick ==
    /\ now < MaxTime
    /\ now' = now + 1
    /\ UNCHANGED <<index, cache, last, first, applyVars, scrape, main, calls>>

Next == Query \/ AddChunks \/ ClearIndex \/ Tick

Spec == Init /\ [][Next]_vars

----------------------------------------------------------------------------
(* One application of a function of the engine to drawn inputs *)

\* RAGEngine.query on an empty cache, for every retrieval result and answer
QueryInit ==
    /\ EngineInit
    /\ scrape = NoScrape
    /\ main = NoMain
    /\ calls = NoCalls
    /\ stage = "ready"
    /\ call \in [question : {"Qq"},
                 results : SeqsUpTo(ChunkPool, RetrievalK),
                 answer : Answers]
    /\ result = <<>>

ApplyQuery ==
    /\ stage = "ready"
    /\ result' = query(call.question, call.results, call.answer, <<>>, 0)
    /\ stage' = "done"
    /\ UNCHANGED <<engineVars, call, scrape, main, calls>>

QuerySpec == QueryInit /\ [][ApplyQuery]_vars

\* RAGEngine._cache_key on two questions, and the two questions asked one
\* after the other of an engine whose search finds a chunk
KeyInit ==
    /\ EngineInit
    /\ scrape = NoScrape
    /\ main = NoMain
    /\ calls = NoCalls
    /\ stage = "ready"
    /\ call \in [q1 : Questions, q2 : Questions]
    /\ result = <<>>

ApplyCacheKey ==
    /\ stage = "ready"
    /\ LET found  == <<Chunk("A1", [title |-> "A", url |-> SHORT_URL,
                                      section |-> "infobox"])>>
           one    == query(call.q1, found, "ab", <<>>, 0)
           two    == query(call.q2, found, "cd", one.cache, 0)
       IN  result' = [k1 |-> _cache_key(call.q1), k2 |-> _cache_key(call.q2),
                      second_hit |-> two.hit, entries |-> Len(two.cache)]
    /\ stage' = "done"
    /\ UNCHANGED <<engineVars, call, scrape, main, calls>>

KeySpec == KeyInit /\ [][ApplyCacheKey]_vars

\* RAGEngine.get_sources on every retrieval result
SourcesInit ==
    /\ EngineInit
    /\ scrape = NoScrape
    /\ main = NoMain
    /\ calls = NoCalls
    /\ stage = "ready"
    /\ call \in [results : SeqsUpTo(ChunkPool, SourcesK)]
    /\ result = <<>>

ApplyGetSources ==
    /\ stage = "ready"
    /\ result' = get_sources(call.results)
    /\ stage' = "done"
    /\ UNCHANGED <<engineVars, call, scrape, main, calls>>

SourcesSpec == SourcesInit /\ [][ApplyGetSources]_vars

----------------------------------------------------------------------------
(* Properties of the answer engine *)

\* the urls the chunks of a retrieval result carry, in rank order
UrlOf(chunk) == Get(chunk.metadata, "url", "")

\* the ranks of the chunks that are the first to carry their (non-empty) url
FirstCarriers(results) ==
    {i \in 1..Len(results) :
        /\ UrlOf(results[i]) # ""
        /\ \A j \in 1..(i - 1) : UrlOf(results[j]) # UrlOf(results[i])}

\* the rank of the first chunk with a non-empty url
HasUrl(results) == \E i \in 1..Len(results) : UrlOf(results[i]) # ""

FirstWithUrl(results) ==
    CHOOSE i \in 1..Len(results) :
        /\ UrlOf(results[i]) # ""
        /\ \A j \in 1..(i - 1) : UrlOf(results[j]) = ""

\* C1: a query that misses the cache and whose index search returns nothing
\* returns exactly the not-found message, calls the generation provider zero
\* times and leaves no live cache entry for its fingerprint, so that any later
\* query for a question with that fingerprint searches the index again.
C1_EmptyRetrievalNotCached ==
    (last.op = "query" /\ last.searched /\ last.found = 0) =>
        /\ last.ret = NOT_FOUND
        /\ last.gen_calls = 0
        /\ ~cache_contains(cache, last.key, now)
        /\ \A q \in AskedQuestions, a \in GivenAnswers :
             _cache_key(q) = last.key =>
                \A results \in similarity_search(index, RetrievalK) :
                    query(q, results, a, cache, now).searched

\* C1 witness: a miss with an empty retrieval happened while another answer
\* sat in the cache, and the index has been filled since
C1_Witness ==
    /\ last.op = "query" /\ last.searched /\ last.found = 0
    /\ last.ret = NOT_FOUND
    /\ cache # <<>>
    /\ index # <<>>

\* C2: after a non-empty retrieval the string query returns is at most
\* max_response_length characters long, whatever the answer and the url.
C2_LengthCeiling ==
    (stage = "done" /\ call.results # <<>>) =>
        Len(result.ret) <= MaxResponseLength

\* C3: after a non-empty retrieval, if some retrieved chunk has a non-empty
\* url the response ends with the separator and the url of the first such
\* chunk, whole; if none has, the response ends with no separator-and-url.
C3_CitationSuffix ==
    (stage = "done" /\ call.results # <<>>) =>
        IF HasUrl(call.results)
        THEN EndsWith(result.ret,
                      SEPARATOR \o UrlOf(call.results[FirstWithUrl(call.results)]))
        ELSE /\ ~Contains(result.ret, SEPARATOR)
             /\ \A c \in ChunkPool :
                  UrlOf(c) # "" => ~EndsWith(result.ret, UrlOf(c))

\* C3 witness: the first chunk has no url, the second has one, the answer was
\* truncated and the url closes the response
C3_Witness ==
    /\ stage = "done"
    /\ Len(call.results) >= 2
    /\ UrlOf(call.results[1]) = ""
    /\ UrlOf(call.results[2]) = SHORT_URL
    /\ Len(call.answer) > MaxResponseLength
    /\ EndsWith(result.ret, ELLIPSIS \o SEPARATOR \o SHORT_URL)

\* C4 as stated: two query calls, one after the other, with the same
\* fingerprint, the second made before the lifetime of the first one's cache
\* entry ends and with no capacity eviction of it in between: the second
\* returns the string the first returned and the two calls make at most one
\* generation call together.
C4_Idempotent ==
    (/\ first.set /\ last.op = "query" /\ last.after_first
     /\ last.key = first.key /\ last.in_ttl /\ ~first.evicted) =>
        /\ last.ret = first.ret
        /\ first.gen_calls + last.gen_calls <= 1

\* C4 amended: the same, for a first call whose answer was cached (it hit the
\* cache or its retrieval was not empty), or with the index unchanged between
\* the two calls.
C4_IdempotentOnceCached ==
    (/\ first.set /\ last.op = "query" /\ last.after_first
     /\ last.key = first.key /\ last.in_ttl /\ ~first.evicted
     /\ (first.cached \/ ~first.index_changed)) =>
        /\ last.ret = first.ret
        /\ first.gen_calls + last.gen_calls <= 1

\* C4 witness: the first call generated and stored its answer, another call
\* followed within the entry's lifetime and was answered from the cache
C4_Witness ==
    /\ first.set /\ first.cached /\ first.gen_calls = 1
    /\ last.op = "query" /\ last.after_first /\ last.key = first.key
    /\ last.in_ttl /\ ~first.evicted
    /\ last.hit /\ last.ret = first.ret

\* two questions equal after trimming and lowercasing
SameNormalized(q1, q2) == Lower(Strip(q1)) = Lower(Strip(q2))

\* C5: two questions that are equal after lowercasing and trimming get the
\* same cache key, and asked one after the other they share one cache entry:
\* the second is answered from the entry the first stored.
C5_NormalizedKey ==
    (stage = "done" /\ SameNormalized(call.q1, call.q2)) =>
        /\ result.k1 = result.k2
        /\ result.second_hit
        /\ result.entries = 1

\* C5 witness: two different spellings of one question got one key
C5_Witness ==
    /\ stage = "done"
    /\ call.q1 # call.q2
    /\ Lower(call.q1) # Lower(call.q2)
    /\ Strip(call.q1) # Strip(call.q2)
    /\ SameNormalized(call.q1, call.q2)
    /\ result.k1 = result.k2
    /\ result.second_hit

\* the entry get_sources builds for a chunk
SourceEntry(chunk) ==
    [title |-> Get(chunk.metadata, "title", "Unknown"),
     url |-> UrlOf(chunk),
     section |-> Get(chunk.metadata, "section", "")]

\* C6: get_sources returns no two entries with the same url, each entry is the
\* one of the first retrieved chunk carrying that url, and the entries are in
\* the order of those first occurrences in the ranking.
C6_SourcesDeduplicated ==
    stage = "done" =>
        /\ \A m, n \in 1..Len(result) : m # n => result[m].url # result[n].url
        /\ \E f \in [1..Len(result) -> FirstCarriers(call.results)] :
             /\ \A m, n \in 1..Len(result) : m < n => f[m] < f[n]
             /\ \A n \in 1..Len(result) :
                  result[n] = SourceEntry(call.results[f[n]])

\* C6 witness: a url came back twice with another between, and was listed once
C6_Witness ==
    /\ stage = "done"
    /\ Len(call.results) = 3
    /\ UrlOf(call.results[1]) = SHORT_URL
    /\ UrlOf(call.results[2]) = LONG_URL
    /\ UrlOf(call.results[3]) = SHORT_URL
    /\ call.results[1] # call.results[3]
    /\ Len(result) = 2
    /\ result[1].section = "infobox"

----------------------------------------------------------------------------
(* The chunker: create_chunks over RecursiveCharacterTextSplitter, as
   chunker.py:40-45 configures it (separators "\n\n", "\n", ". ", ", ", " ",
   ""; the library's defaults keep each separator at the start of the piece
   after it and strip whitespace from both ends of every chunk). *)

\* create_chunks' chunk_size (chunker.py:19, default 500), scaled down
ChunkSize == 4
\* create_chunks' chunk_overlap (chunker.py:20, default 50), scaled down
ChunkOverlap == 1
\* longest section content, in characters
MaxContentLen == 5
SEPARATORS == <<"\n\n", "\n", ". ", ", ", " ", "">>

\* the position of the first occurrence of sep in text, 0 if there is none
FindFirst(text, sep) ==
    IF Contains(text, sep)
    THEN CHOOSE i \in 1..(Len(text) - Len(sep) + 1) :
            /\ SubSeq(text, i, i + Len(sep) - 1) = sep
            /\ \A j \in 1..(i - 1) : SubSeq(text, j, j + Len(sep) - 1) # sep
    ELSE 0

\* re.split(sep, text) for a literal, non-empty sep
RECURSIVE ReSplit(_, _)
ReSplit(text, sep) ==
    IF FindFirst(text, sep) = 0 THEN <<text>>
    ELSE <<SubSeq(text, 1, FindFirst(text, sep) - 1)>>
         \o ReSplit(SubSeq(text, FindFirst(text, sep) + Len(sep), Len(text)), sep)

\* list(text)
Chars(text) == [i \in 1..Len(text) |-> SubSeq(text, i, i)]

\* the splitter's _split_text_with_regex with keep_separator: the text before
\* the first separator, then each separator with the text after it; empty
\* pieces dropped
split_text_with_regex(text, sep) ==
    LET parts  == ReSplit(text, sep)
        splits == IF sep = "" THEN Chars(text)
                  ELSE <<parts[1]>>
                       \o [i \in 1..(Len(parts) - 1) |-> sep \o parts[i + 1]]
    IN  SelectSeq(splits, LAMBDA s : s # "")

\* separator.join(docs)
RECURSIVE Join(_, _)
Join(docs, separator) ==
    IF docs = <<>> THEN ""
    ELSE IF Len(docs) = 1 THEN docs[1]
    ELSE docs[1] \o separator \o Join(Tail(docs), separator)

\* the splitter's _join_docs: joined and stripped; None when nothing is left
join_docs(docs, separator) ==
    IF Strip(Join(docs, separator)) = "" THEN None
    ELSE Some(Strip(Join(docs, separator)))

\* the while loop of _merge_splits: pieces leave the front of the window until
\* what stays is within the overlap and leaves room for the next piece
RECURSIVE pop_window(_, _, _, _, _, _)
pop_window(current_doc, total, len, separator, chunk_size, chunk_overlap) ==
    IF \/ total > chunk_overlap
       \/ /\ total + len + (IF Len(current_doc) > 0 THEN Len(separator) ELSE 0)
               > chunk_size
          /\ total > 0
    THEN pop_window(Tail(current_doc),
                    total - (Len(current_doc[1])
                             + (IF Len(current_doc) > 1 THEN Len(separator) ELSE 0)),
                    len, separator, chunk_size, chunk_overlap)
    ELSE [current_doc |-> current_doc, total |-> total]

\* the for loop of _merge_splits and what follows it
RECURSIVE merge_loop(_, _, _, _, _, _, _)
merge_loop(splits, docs, current_doc, total, separator, chunk_size, chunk_overlap) ==
    IF splits = <<>>
    THEN docs \o join_docs(current_doc, separator)
    ELSE LET d    == Head(splits)
             full == total + Len(d)
                       + (IF Len(current_doc) > 0 THEN Len(separator) ELSE 0)
                     > chunk_size
             emit == full /\ Len(current_doc) > 0
             w    == IF emit
                     THEN pop_window(current_doc, total, Len(d), separator,
                                     chunk_size, chunk_overlap)
                     ELSE [current_doc |-> current_doc, total |-> total]
             next_doc == w.current_doc \o <<d>>
         IN  merge_loop(Tail(splits),
                        IF emit THEN docs \o join_docs(current_doc, separator)
                                ELSE docs,
                        next_doc,
                        w.total + Len(d)
                          + (IF Len(next_doc) > 1 THEN Len(separator) ELSE 0),
                        separator, chunk_size, chunk_overlap)

\* the splitter's _merge_splits
merge_splits(splits, separator, chunk_size, chunk_overlap) ==
    merge_loop(splits, <<>>, <<>>, 0, separator, chunk_size, chunk_overlap)

\* the index of the separator _split_text picks: the first that is "" or
\* occurs in the text, 0 when none does
PickSeparator(text, separators) ==
    IF \E i \in 1..Len(separators) :
            separators[i] = "" \/ Contains(text, separators[i])
    THEN CHOOSE i \in 1..Len(separators) :
            /\ separators[i] = "" \/ Contains(text, separators[i])
            /\ \A j \in 1..(i - 1) :
                  separators[j] # "" /\ ~Contains(text, separators[j])
    ELSE 0

RECURSIVE _split_text(_, _, _, _)
RECURSIVE split_loop(_, _, _, _, _, _)

\* the for loop of _split_text and what follows it: pieces under the size are
\* gathered and merged, a piece that is not is split with the separators left
split_loop(splits, good_splits, final_chunks, new_separators, chunk_size, chunk_overlap) ==
    LET merged == IF good_splits # <<>>
                  THEN merge_splits(good_splits, "", chunk_size, chunk_overlap)
                  ELSE <<>>
    IN  IF splits = <<>> THEN final_chunks \o merged
        ELSE IF Len(Head(splits)) < chunk_size
        THEN split_loop(Tail(splits), good_splits \o <<Head(splits)>>,
                        final_chunks, new_separators, chunk_size, chunk_overlap)
        ELSE split_loop(Tail(splits), <<>>,
                        final_chunks \o merged
                          \o (IF new_separators = <<>> THEN <<Head(splits)>>
                              ELSE _split_text(Head(splits), new_separators,
                                               chunk_size, chunk_overlap)),
                        new_separators, chunk_size, chunk_overlap)

\* RecursiveCharacterTextSplitter._split_text
_split_text(text, separators, chunk_size, chunk_overlap) ==
    LET picked == PickSeparator(text, separators)
        separator == IF picked = 0 THEN separators[Len(separators)]
                     ELSE separators[picked]
        new_separators ==
            IF picked = 0 \/ separator = "" THEN <<>>
            ELSE SubSeq(separators, picked + 1, Len(separators))
    IN  split_loop(split_text_with_regex(text, separator), <<>>, <<>>,
                   new_separators, chunk_size, chunk_overlap)

\* splitter.split_text(text), chunker.py:63 and :82
split_text(text, chunk_size, chunk_overlap) ==
    _split_text(text, SEPARATORS, chunk_size, chunk_overlap)


\* str.replace(old, new) for a one-character old
RECURSIVE ReplaceChar(_, _, _)
ReplaceChar(s, old, new) ==
    IF s = "" THEN ""
    ELSE (IF SubSeq(s, 1, 1) = old THEN new ELSE SubSeq(s, 1, 1))
         \o ReplaceChar(SubSeq(s, 2, Len(s)), old, new)

\* str.title(): a letter that follows a letter is lowered, any other raised
RECURSIVE TitleFrom(_, _)
TitleFrom(s, after_letter) ==
    IF s = "" THEN ""
    ELSE LET c == SubSeq(s, 1, 1)
         IN  (IF after_letter THEN LowerChar(c) ELSE UpperChar(c))
             \o TitleFrom(SubSeq(s, 2, Len(s)), IsLower(c) \/ IsUpper(c))

Title(s) == TitleFrom(s, FALSE)

\* page_parser.format_infobox; the infobox is the sequence of its
\* <<key, value>> items
format_infobox(infobox) ==
    Join([i \in 1..Len(infobox) |->
             Title(ReplaceChar(infobox[i][1], "_", " ")) \o ": " \o infobox[i][2]],
         "; ")

\* the WikiPage parse_wiki_page builds, page_parser.py:220-235
WikiPage(title, url, category, infobox, sections) ==
    [title |-> title, url |-> url, category |-> category,
     infobox |-> infobox, sections |-> sections,
     full_text |->
        Join(<<title>>
             \o (IF infobox # <<>> THEN <<format_infobox(infobox)>> ELSE <<>>)
             \o [i \in 1..Len(sections) |->
                    sections[i].heading \o ": " \o sections[i].content],
             "\n\n")]

\* create_chunks, lines 34-38
base_metadata(page) ==
    [title |-> page.title, url |-> page.url, category |-> page.category]

\* create_chunks, lines 47-55: the infobox as a single chunk
infobox_chunks(page) ==
    IF page.infobox # <<>>
    THEN <<Chunk(page.title \o "\n\n" \o format_infobox(page.infobox),
                 base_metadata(page) @@ [section |-> "infobox"])>>
    ELSE <<>>

\* create_chunks, lines 60-78: the chunks of one section
section_chunks(page, section, chunk_size, chunk_overlap) ==
    LET section_prefix == page.title \o " - " \o section.heading \o "\n\n"
        pieces == split_text(section.content, chunk_size, chunk_overlap)
    IN  [i \in 1..Len(pieces) |->
            Chunk(section_prefix \o pieces[i],
                  base_metadata(page)
                    @@ [section |-> section.heading, chunk_index |-> i - 1])]

\* create_chunks, lines 58-78: every section in turn
RECURSIVE all_section_chunks(_, _, _, _)
all_section_chunks(page, sections, chunk_size, chunk_overlap) ==
    IF sections = <<>> THEN <<>>
    ELSE section_chunks(page, Head(sections), chunk_size, chunk_overlap)
         \o all_section_chunks(page, Tail(sections), chunk_size, chunk_overlap)

\* create_chunks, lines 80-93: the full text, when there is nothing else
full_text_chunks(page, chunk_size, chunk_overlap) ==
    LET pieces == split_text(page.full_text, chunk_size, chunk_overlap)
    IN  [i \in 1..Len(pieces) |->
            Chunk(pieces[i],
                  base_metadata(page)
                    @@ [section |-> "full_text", chunk_index |-> i - 1])]

\* create_chunks falling back to the full text whenever there are no sections
create_chunks_fallback_without_sections(page, chunk_size, chunk_overlap) ==
    infobox_chunks(page)
    \o all_section_chunks(page, page.sections, chunk_size, chunk_overlap)
    \o (IF page.sections = <<>>
        THEN full_text_chunks(page, chunk_size, chunk_overlap) ELSE <<>>)

\* create_chunks keeping the first piece of each section only
create_chunks_first_piece(page, chunk_size, chunk_overlap) ==
    infobox_chunks(page)
    \o SelectSeq(all_section_chunks(page, page.sections, chunk_size, chunk_overlap),
                 LAMBDA c : c.metadata.chunk_index = 0)
    \o (IF page.sections = <<>> /\ page.infobox = <<>>
        THEN full_text_chunks(page, chunk_size, chunk_overlap) ELSE <<>>)

\* chunker.create_chunks
create_chunks(page, chunk_size, chunk_overlap) ==
    infobox_chunks(page)
    \o all_section_chunks(page, page.sections, chunk_size, chunk_overlap)
    \o (IF page.sections = <<>> /\ page.infobox = <<>>
        THEN full_text_chunks(page, chunk_size, chunk_overlap) ELSE <<>>)

----------------------------------------------------------------------------
(* create_chunks applied to drawn pages *)

\* text as clean_text leaves it (page_parser.py:28-35): not empty, no blank
\* at either end, no two blanks in a row
IsClean(s) ==
    /\ s # ""
    /\ Strip(s) = s
    /\ ~Contains(s, "  ")

\* section contents: every clean text of two letters, blanks and full stops
Contents ==
    {s \in StringsUpTo({"a", "b", " ", "."}, MaxContentLen) : IsClean(s)}

\* a page has no section, one section, or a fixed first section and another
SectionLists ==
    {<<>>}
    \cup {<<[heading |-> "Habitat", content |-> c]>> : c \in Contents}
    \cup {<<[heading |-> "Overview", content |-> "ab. a"],
            [heading |-> "Habitat", content |-> c]>> : c \in Contents}

Infoboxes == {<<>>, <<<<"type", "fish">>, <<"sell_price", "9">>>>}

Pages ==
    {WikiPage("Tuna", "/wiki/Tuna", "Fish", infobox, sections) :
        infobox \in Infoboxes, sections \in SectionLists}

ChunkInit ==
    /\ EngineInit
    /\ scrape = NoScrape
    /\ main = NoMain
    /\ calls = NoCalls
    /\ stage = "ready"
    /\ call \in [page : Pages]
    /\ result = <<>>

ApplyCreateChunks ==
    /\ stage = "ready"
    /\ result' = create_chunks(call.page, ChunkSize, ChunkOverlap)
    /\ stage' = "done"
    /\ UNCHANGED <<engineVars, call, scrape, main, calls>>

ChunkSpec == ChunkInit /\ [][ApplyCreateChunks]_vars

----------------------------------------------------------------------------
(* Properties of the chunker *)

SectionPieces(chunks, page, heading) ==
    LET prefix == page.title \o " - " \o heading \o "\n\n"
        mine   == {i \in 1..Len(chunks) :
                     /\ chunks[i].metadata.section = heading
                     /\ StartsWith(chunks[i].text, prefix)}
        at(n)  == CHOOSE i \in mine : chunks[i].metadata.chunk_index = n - 1
    IN  [n \in 1..Cardinality(mine) |->
            SubSeq(chunks[at(n)].text, Len(prefix) + 1, Len(chunks[at(n)].text))]

\* the pieces can be laid over the content in order, each where its text
\* occurs and none starting before the one before it, so that every position
\* from done + 1 on is under a piece or holds a character of gap_chars
RECURSIVE Covers(_, _, _, _, _)
Covers(content, pieces, start, done, gap_chars) ==
    IF pieces = <<>>
    THEN \A p \in (done + 1)..Len(content) : SubSeq(content, p, p) \in gap_chars
    ELSE \E o \in start..(Len(content) - Len(Head(pieces)) + 1) :
            /\ SubSeq(content, o, o + Len(Head(pieces)) - 1) = Head(pieces)
            /\ \A p \in (done + 1)..(o - 1) : SubSeq(content, p, p) \in gap_chars
            /\ Covers(content, Tail(pieces), o,
                      Max(done, o + Len(Head(pieces)) - 1), gap_chars)

\* C10 as stated: for every section, its chunks in chunk_index order, prefix
\* removed and overlaps laid over each other, cover the section content with
\* no character left out.
C10_CoversContent ==
    stage = "done" =>
        \A k \in 1..Len(call.page.sections) :
            Covers(call.page.sections[k].content,
                   SectionPieces(result, call.page, call.page.sections[k].heading),
                   1, 0, {})

\* C10 amended: they cover every character of the section content that is
\* not whitespace; only whitespace at a chunk boundary is left out.
C10_CoversAllButBlanks ==
    stage = "done" =>
        \A k \in 1..Len(call.page.sections) :
            Covers(call.page.sections[k].content,
                   SectionPieces(result, call.page, call.page.sections[k].heading),
                   1, 0, {" ", "\t", "\n"})

\* the summed length of a sequence of strings
RECURSIVE TotalLen(_)
TotalLen(pieces) ==
    IF pieces = <<>> THEN 0 ELSE Len(Head(pieces)) + TotalLen(Tail(pieces))

\* C10 witness: a section was split into several chunks that carry overlap
\* (together longer than the content) and cover it
C10_Witness ==
    /\ stage = "done"
    /\ \E k \in 1..Len(call.page.sections) :
         LET content == call.page.sections[k].content
             pieces  == SectionPieces(result, call.page,
                                      call.page.sections[k].heading)
         IN  /\ Len(pieces) >= 2
             /\ TotalLen(pieces) > Len(content)
             /\ Covers(content, pieces, 1, 0, {})

----------------------------------------------------------------------------
(* The wiki scraper: WikiScraper in scraper/wiki_scraper.py *)

\* bounds of the scrape runs explored
MaxSitemap == 3

MaxPages == 1

SKIP_PATTERNS ==
    <<"/wiki/File:", "/wiki/Template:", "/wiki/Category:", "/wiki/Special:",
      "/wiki/User:", "/wiki/Talk:", "/wiki/Module:", "/wiki/MediaWiki:",
      "/wiki/Guide:", "?action=", "/wiki/Main_Page">>

LANGUAGE_SUFFIXES ==
    <<"/de", "/es", "/fr", "/it", "/ja", "/ko", "/pl", "/pt-br", "/ru", "/th",
      "/tr", "/uk", "/vi", "/zh-hans", "/zh-tw">>

PRIORITY_PATTERNS ==
    <<"/wiki/[A-Z][a-z]+$", "/wiki/Quests", "/wiki/Skills", "/wiki/Locations",
      "/wiki/Gifting">>

\* should_skip_url testing the skip patterns only
should_skip_url_any_language(url) ==
    \E i \in 1..Len(SKIP_PATTERNS) : Contains(url, SKIP_PATTERNS[i])

should_skip_url(url) ==
    \/ \E i \in 1..Len(SKIP_PATTERNS) : Contains(url, SKIP_PATTERNS[i])
    \/ \E i \in 1..Len(LANGUAGE_SUFFIXES) : EndsWith(url, LANGUAGE_SUFFIXES[i])

\* re.search(r"/wiki/[A-Z][a-z]+$", url): somewhere "/wiki/", one capital, then
\* lower-case letters up to the end; $ also matches before a final newline
search_simple_page(url) ==
    \E i \in 1..Len(url) :
        /\ i + 7 <= Len(url)
        /\ SubSeq(url, i, i + 5) = "/wiki/"
        /\ IsUpper(SubSeq(url, i + 6, i + 6))
        /\ \E e \in {Len(url)}
                    \cup (IF EndsWith(url, "\n") THEN {Len(url) - 1} ELSE {}) :
              /\ e >= i + 7
              /\ \A j \in (i + 7)..e : IsLower(SubSeq(url, j, j))

\* re.search(pattern, url) for the patterns of PRIORITY_PATTERNS: the first is
\* the one above, the others have no metacharacter and are substring tests
re_search(pattern, url) ==
    IF pattern = PRIORITY_PATTERNS[1]
    THEN search_simple_page(url)
    ELSE Contains(url, pattern)

\* priority_key giving the first rank to a URL that matches no pattern
priority_key_unmatched_first(url) ==
    LET hits == {i \in 1..Len(PRIORITY_PATTERNS) :
                    re_search(PRIORITY_PATTERNS[i], url)}
    IN  IF hits = {} THEN 0
        ELSE (CHOOSE i \in hits : \A j \in hits : i <= j) - 1

\* priority_key of scrape_all: the index of the first pattern found in the
\* url, counted from 0, or the number of patterns
priority_key(url) ==
    LET hits == {i \in 1..Len(PRIORITY_PATTERNS) :
                    re_search(PRIORITY_PATTERNS[i], url)}
    IN  IF hits = {} THEN Len(PRIORITY_PATTERNS)
        ELSE (CHOOSE i \in hits : \A j \in hits : i <= j) - 1

\* urls.sort(key=priority_key): list.sort is stable; each url goes behind the
\* urls already placed whose key is not larger
RECURSIVE sort_from(_, _)
sort_from(sorted, rest) ==
    IF rest = <<>> THEN sorted
    ELSE LET u == Head(rest)
             k == Cardinality({i \in 1..Len(sorted) :
                                  priority_key(sorted[i]) <= priority_key(u)})
         IN  sort_from(SubSeq(sorted, 1, k) \o <<u>>
                           \o SubSeq(sorted, k + 1, Len(sorted)),
                       Tail(rest))

sort(urls) == sort_from(<<>>, urls)

\* "if self.config.max_pages: urls = urls[:max_pages]": None and 0 leave the
\* list as it is
limit_pages(urls, max_pages) ==
    IF max_pages # None /\ max_pages[1] # 0
    THEN PySlicePrefix(urls, max_pages[1])
    ELSE urls

\* what the site serves; the run sees it through get_sitemap_urls
WIKI_BASE_URL == "https://palia.wiki.gg"

UrlPool ==
    {WIKI_BASE_URL \o "/wiki/Fish",
     WIKI_BASE_URL \o "/wiki/Iron_Ore",
     WIKI_BASE_URL \o "/wiki/Quests/Main",
     WIKI_BASE_URL \o "/wiki/Sturgeon",
     WIKI_BASE_URL \o "/wiki/Category:Fish",
     WIKI_BASE_URL \o "/wiki/Fish/de"}

\* the sitemaps explored list each of their pages once
Sitemaps ==
    {s \in SeqsUpTo(UrlPool, MaxSitemap) :
        \A i, j \in 1..Len(s) : s[i] = s[j] => i = j}

\* parse_wiki_page of the html served for url
PageAt(url) ==
    WikiPage("Page", url, "General", <<<<"type", "fish">>>>,
             <<[heading |-> "Overview", content |-> "ab. a"]>>)

\* scrape_page: None when the fetch fails or returns no body, None when the
\* parser raises, the parsed page otherwise
scrape_page(url, outcome) ==
    IF outcome = "ok" THEN Some(PageAt(url)) ELSE None

Outcomes == {"ok", "fetch_failed", "parse_failed"}

ScrapeInit ==
    /\ EngineInit
    /\ main = NoMain
    /\ calls = NoCalls
    /\ stage = "idle"
    /\ call = <<>>
    /\ result = <<>>
    /\ \E m \in {None} \cup {Some(n) : n \in 0..MaxPages} :
          scrape = [NoScrape EXCEPT !.pc = "start", !.max_pages = m]

\* scrape_all up to its loop: the sitemap, the filter, the sort and the limit
PlanScrape ==
    /\ scrape.pc = "start"
    /\ \E sitemap \in Sitemaps :
          LET filtered == SelectSeq(sitemap, LAMBDA u : ~should_skip_url(u))
          IN  scrape' = [scrape EXCEPT
                           !.pc = "loop",
                           !.sitemap = sitemap,
                           !.filtered = filtered,
                           !.urls = limit_pages(sort(filtered), scrape.max_pages)]
    /\ UNCHANGED <<engineVars, applyVars, main, calls>>

\* ScraperConfig.delay, the seconds slept between two requests
DELAY == 1

\* ScrapeOne sleeping after the last url as well
ScrapeOne_sleep_after_every_url ==
    /\ scrape.pc = "loop"
    /\ scrape.pos < Len(scrape.urls)
    /\ \E outcome \in Outcomes :
          LET i    == scrape.pos
              url  == scrape.urls[i + 1]
              page == scrape_page(url, outcome)
          IN  scrape' = [scrape EXCEPT
                  !.pos = i + 1,
                  !.all_chunks =
                      @ \o (IF page # None
                            THEN create_chunks(page[1], ChunkSize, ChunkOverlap)
                            ELSE <<>>),
                  !.trace =
                      @ \o <<[ev |-> "progress", current |-> i + 1,
                              total |-> Len(scrape.urls), url |-> url],
                             [ev |-> "fetch", url |-> url, outcome |-> outcome],
                             [ev |-> "sleep", seconds |-> DELAY]>>]
    /\ UNCHANGED <<engineVars, applyVars, main, calls>>

\* ScrapeOne with a failed page ending the loop
ScrapeOne_stop_on_failure ==
    /\ scrape.pc = "loop"
    /\ scrape.pos < Len(scrape.urls)
    /\ \E outcome \in Outcomes :
          LET i    == scrape.pos
              url  == scrape.urls[i + 1]
              page == scrape_page(url, outcome)
          IN  scrape' = [scrape EXCEPT
                  !.pos = IF page # None THEN i + 1 ELSE Len(scrape.urls),
                  !.all_chunks =
                      @ \o (IF page # None
                            THEN create_chunks(page[1], ChunkSize, ChunkOverlap)
                            ELSE <<>>),
                  !.trace =
                      @ \o <<[ev |-> "progress", current |-> i + 1,
                              total |-> Len(scrape.urls), url |-> url],
                             [ev |-> "fetch", url |-> url, outcome |-> outcome]>>
                        \o (IF i < Len(scrape.urls) - 1
                            THEN <<[ev |-> "sleep", seconds |-> DELAY]>>
                            ELSE <<>>)]
    /\ UNCHANGED <<engineVars, applyVars, main, calls>>

\* one turn of the loop: the progress callback, the page, its chunks, and the
\* sleep unless this was the last url
ScrapeOne ==
    /\ scrape.pc = "loop"
    /\ scrape.pos < Len(scrape.urls)
    /\ \E outcome \in Outcomes :
          LET i    == scrape.pos
              url  == scrape.urls[i + 1]
              page == scrape_page(url, outcome)
          IN  scrape' = [scrape EXCEPT
                  !.pos = i + 1,
                  !.all_chunks =
                      @ \o (IF page # None
                            THEN create_chunks(page[1], ChunkSize, ChunkOverlap)
                            ELSE <<>>),
                  !.trace =
                      @ \o <<[ev |-> "progress", current |-> i + 1,
                              total |-> Len(scrape.urls), url |-> url],
                             [ev |-> "fetch", url |-> url, outcome |-> outcome]>>
                        \o (IF i < Len(scrape.urls) - 1
                            THEN <<[ev |-> "sleep", seconds |-> DELAY]>>
                            ELSE <<>>)]
    /\ UNCHANGED <<engineVars, applyVars, main, calls>>

\* the loop is over: scrape_all returns all_chunks
ScrapeReturn ==
    /\ scrape.pc = "loop"
    /\ scrape.pos = Len(scrape.urls)
    /\ scrape' = [scrape EXCEPT !.pc = "done"]
    /\ UNCHANGED <<engineVars, applyVars, main, calls>>

ScrapeNext == PlanScrape \/ ScrapeOne \/ ScrapeReturn

ScrapeSpec == ScrapeInit /\ [][ScrapeNext]_vars

----------------------------------------------------------------------------
(* Properties of the scraper *)

\* the urls fetched so far in the run, in the order of the requests
FetchedUrls ==
    LET fetches == SelectSeq(scrape.trace, LAMBDA e : e.ev = "fetch")
    IN  [i \in 1..Len(fetches) |-> fetches[i].url]

\* the url holds one of the skip substrings or ends in a language suffix
OnBlocklist(url) ==
    \/ \E p \in {SKIP_PATTERNS[i] : i \in 1..Len(SKIP_PATTERNS)} :
          \E a \in 0..(Len(url) - Len(p)) : SubSeq(url, a + 1, a + Len(p)) = p
    \/ \E s \in {LANGUAGE_SUFFIXES[i] : i \in 1..Len(LANGUAGE_SUFFIXES)} :
          /\ Len(s) <= Len(url)
          /\ SubSeq(url, Len(url) - Len(s) + 1, Len(url)) = s

\* the urls of the site that are on the blocklist
BlockedUrls == {u \in UrlPool : OnBlocklist(u)}

\* how many times x occurs in the sequence s
Count(s, x) == Cardinality({i \in 1..Len(s) : s[i] = x})

\* the page limit applies to this run
Limited == scrape.max_pages # None /\ scrape.max_pages[1] # 0

\* C7: no page fetch is issued for a sitemap URL that holds a skip substring
\* or ends in a language suffix, and every other URL of the sitemap stays in
\* the list to fetch, as often as the sitemap has it, up to the page limit.
C7_SkippedNeverFetched ==
    scrape.pc \in {"loop", "done"} =>
        /\ \A i \in 1..Len(FetchedUrls) : FetchedUrls[i] \notin BlockedUrls
        /\ \A i \in 1..Len(scrape.urls) : scrape.urls[i] \notin BlockedUrls
        /\ scrape.filtered
              = SelectSeq(scrape.sitemap, LAMBDA u : u \notin BlockedUrls)
        /\ \A u \in UrlPool :
              IF u \in BlockedUrls THEN Count(scrape.urls, u) = 0
              ELSE IF Limited THEN Count(scrape.urls, u) <= Count(scrape.sitemap, u)
              ELSE Count(scrape.urls, u) = Count(scrape.sitemap, u)
        /\ (scrape.pc = "done" /\ ~Limited) =>
              \A u \in UrlPool :
                  u \notin BlockedUrls => Count(FetchedUrls, u) = Count(scrape.sitemap, u)

\* C7 witness: a finished run whose sitemap held a skipped namespace page, a
\* translated page and an English page, and which fetched the English page only
C7_Witness ==
    /\ scrape.pc = "done"
    /\ scrape.sitemap = <<WIKI_BASE_URL \o "/wiki/Category:Fish", WIKI_BASE_URL \o "/wiki/Fish/de",
                          WIKI_BASE_URL \o "/wiki/Fish">>
    /\ FetchedUrls = <<WIKI_BASE_URL \o "/wiki/Fish">>

\* the number of patterns at the head of PRIORITY_PATTERNS that do not occur
\* in the url: the index of the first that does, or 5
Rank(url) ==
    Cardinality({i \in 1..Len(PRIORITY_PATTERNS) :
                    \A j \in 1..i : ~re_search(PRIORITY_PATTERNS[j], url)})

\* the rank of each url of the site
RankOf == [u \in UrlPool |-> Rank(u)]

\* the orders of the positions 1..n
Orders(n) == {f \in [1..n -> 1..n] : \A i, j \in 1..n : f[i] = f[j] => i = j}

\* C8: the URLs are fetched in the order of a stable sort of the filtered
\* sitemap by priority key: a smaller key before a larger one, equal keys in
\* sitemap order; the fetches are a prefix of that order, and all of it when
\* an unlimited run has finished.
C8_PriorityOrder ==
    scrape.pc \in {"loop", "done"} =>
        \E f \in Orders(Len(scrape.filtered)) :
            LET sorted == [i \in 1..Len(scrape.filtered) |-> scrape.filtered[f[i]]]
            IN  /\ \A i, j \in 1..Len(sorted) :
                      i < j => \/ RankOf[sorted[i]] < RankOf[sorted[j]]
                               \/ /\ RankOf[sorted[i]] = RankOf[sorted[j]]
                                  /\ f[i] < f[j]
                /\ Len(FetchedUrls) <= Len(sorted)
                /\ FetchedUrls = SubSeq(sorted, 1, Len(FetchedUrls))
                /\ (scrape.pc = "done" /\ ~Limited) => FetchedUrls = sorted

\* C8 witness: a finished run that fetched two simple-name pages in their
\* sitemap order and ahead of an unranked page the sitemap listed first
C8_Witness ==
    /\ scrape.pc = "done"
    /\ scrape.sitemap = <<WIKI_BASE_URL \o "/wiki/Iron_Ore", WIKI_BASE_URL \o "/wiki/Sturgeon",
                          WIKI_BASE_URL \o "/wiki/Fish">>
    /\ FetchedUrls = <<WIKI_BASE_URL \o "/wiki/Sturgeon", WIKI_BASE_URL \o "/wiki/Fish",
                       WIKI_BASE_URL \o "/wiki/Iron_Ore">>

\* the fetch events of the run so far, in order
Fetches == SelectSeq(scrape.trace, LAMBDA e : e.ev = "fetch")

\* the chunks of the pages behind the successful fetches, in fetch order
RECURSIVE ChunksOfFetched(_)
ChunksOfFetched(fetches) ==
    IF fetches = <<>> THEN <<>>
    ELSE (IF Head(fetches).outcome = "ok"
          THEN create_chunks(PageAt(Head(fetches).url), ChunkSize, ChunkOverlap)
          ELSE <<>>)
         \o ChunksOfFetched(Tail(fetches))

\* C11: a URL whose fetch or parse fails adds no chunk and does not stop the
\* run: the URLs fetched so far are the planned list up to the loop position,
\* all of it once the run returns, and the chunks collected are those of the
\* pages that fetched and parsed, in URL order.
C11_FailuresSkipped ==
    scrape.pc \in {"loop", "done"} =>
        /\ FetchedUrls = SubSeq(scrape.urls, 1, scrape.pos)
        /\ scrape.pc = "done" => FetchedUrls = scrape.urls
        /\ scrape.all_chunks = ChunksOfFetched(Fetches)

\* C11 witness: a finished run of three URLs whose second failed and whose
\* first and third gave chunks
C11_Witness ==
    /\ scrape.pc = "done"
    /\ Len(Fetches) = 3
    /\ Fetches[1].outcome = "ok"
    /\ Fetches[2].outcome # "ok"
    /\ Fetches[3].outcome = "ok"
    /\ scrape.all_chunks
          = create_chunks(PageAt(scrape.urls[1]), ChunkSize, ChunkOverlap)
            \o create_chunks(PageAt(scrape.urls[3]), ChunkSize, ChunkOverlap)
    /\ scrape.all_chunks # <<>>

----------------------------------------------------------------------------
(* The command-line run: main in scraper/run_scraper.py *)

\* how many chunks the database holds when main starts, at most
MaxStored == 2

\* the methods the class VectorStore defines (vector_store.py:15-119)
VectorStore_methods ==
    {"__init__", "add_chunks", "similarity_search", "count", "clear"}

\* the parameters of WikiScraper.scrape_all besides self (wiki_scraper.py:167)
scrape_all_parameters == {"progress_callback"}

\* the keyword arguments main passes to scrape_all (run_scraper.py:98-101)
scrape_all_keywords == {"progress_callback", "skip_urls"}

\* the databases main can find: what earlier add_chunks calls left on disk
StoredIndexes == {add_chunks(<<>>, cs) : cs \in SeqsUpTo(ChunkPool, MaxStored)}

MainInit ==
    /\ index \in StoredIndexes
    /\ cache = <<>>
    /\ now = 0
    /\ last = NoCall
    /\ first = NoFirst
    /\ stage = "idle"
    /\ call = <<>>
    /\ result = <<>>
    /\ scrape = NoScrape
    /\ calls = NoCalls
    /\ \E c \in BOOLEAN, inc \in BOOLEAN,
          m \in {None} \cup {Some(n) : n \in 0..MaxPages} :
          main = [NoMain EXCEPT !.pc = "start", !.clear = c,
                                !.incremental = inc, !.max_pages = m]

\* main, lines 72-83: --clear empties the database; otherwise --incremental
\* asks the store for get_indexed_urls, which VectorStore does not define, so
\* the attribute lookup raises AttributeError
MainPrepare ==
    /\ main.pc = "start"
    /\ IF main.clear
       THEN /\ index' = clear(index)
            /\ main' = [main EXCEPT !.pc = "scrape", !.existing_urls = {}]
       ELSE IF main.incremental
       THEN /\ "get_indexed_urls" \notin VectorStore_methods
            /\ main' = [main EXCEPT !.pc = "raised", !.error = "AttributeError"]
            /\ UNCHANGED index
       ELSE /\ main' = [main EXCEPT !.pc = "scrape", !.existing_urls = {}]
            /\ UNCHANGED index
    /\ UNCHANGED <<cache, now, last, first, applyVars, scrape, calls>>

\* main, lines 86-101: the call scrape_all(progress_callback=..., skip_urls=...)
\* binds its keywords to the parameters of scrape_all; a keyword that is no
\* parameter raises TypeError before the body runs
MainScrape ==
    /\ main.pc = "scrape"
    /\ IF scrape_all_keywords \subseteq scrape_all_parameters
       THEN /\ scrape' = [NoScrape EXCEPT !.pc = "start",
                                          !.max_pages = main.max_pages]
            /\ main' = [main EXCEPT !.pc = "scraping"]
       ELSE /\ main' = [main EXCEPT !.pc = "raised", !.error = "TypeError"]
            /\ UNCHANGED scrape
    /\ UNCHANGED <<engineVars, applyVars, calls>>

MainNext == MainPrepare \/ MainScrape

MainSpec == MainInit /\ [][MainNext]_vars

\* C12: a run of main in incremental mode that reaches the call of scrape_all
\* with its skip_urls set completes that call normally (and then fetches no
\* URL of the set).
C12_SkipUrlsAccepted ==
    main.incremental => ~(main.pc = "raised" /\ main.error = "TypeError")

----------------------------------------------------------------------------
(* VectorStore.similarity_search applied to a stored index *)

\* the largest k asked for
MaxK == 2

SearchInit ==
    /\ index \in StoredIndexes
    /\ cache = <<>>
    /\ now = 0
    /\ last = NoCall
    /\ first = NoFirst
    /\ scrape = NoScrape
    /\ main = NoMain
    /\ calls = NoCalls
    /\ stage = "ready"
    /\ call \in [k : 1..MaxK]
    /\ result = <<>>

ApplySearch ==
    /\ stage = "ready"
    /\ result' \in similarity_search(index, call.k)
    /\ stage' = "done"
    /\ UNCHANGED <<engineVars, call, scrape, main, calls>>

SearchSpec == SearchInit /\ [][ApplySearch]_vars

----------------------------------------------------------------------------
(* VectorStore.add_chunks applied to a stored index *)

\* the longest list of chunks added in one call
MaxNew == 3

\* the chunks of a fresh scrape, none of them in ChunkPool
NewChunks(n) ==
    [p \in 1..n |->
        Chunk("N" \o ToString(p), [title |-> "N", url |-> "/N" \o ToString(p)])]

\* the outcomes of a call on chunks: no failure, or the embedding or the store
\* of one batch raising
Failures(chunks, batch_size) ==
    {NoFailure}
    \cup {[at |-> i, step |-> st] :
            i \in {b \in 0..(Len(chunks) - 1) : b % batch_size = 0},
            st \in {"embed_documents", "collection.add"}}

AddInit ==
    /\ index \in StoredIndexes
    /\ cache = <<>>
    /\ now = 0
    /\ last = NoCall
    /\ first = NoFirst
    /\ scrape = NoScrape
    /\ main = NoMain
    /\ calls = NoCalls
    /\ stage = "ready"
    /\ \E n \in 0..MaxNew :
          \E f \in Failures(NewChunks(n), BatchSize) :
              call = [chunks |-> NewChunks(n), failure |-> f]
    /\ result = <<>>

ApplyAddChunks ==
    /\ stage = "ready"
    /\ result' = add_chunks_run(index, call.chunks, BatchSize, call.failure)
    /\ index' = result'.index
    /\ stage' = "done"
    /\ UNCHANGED <<cache, now, last, first, call, scrape, main, calls>>

AddSpec == AddInit /\ [][ApplyAddChunks]_vars

\* chunk p of the call is in the index
StoredNow(p) == \E i \in 1..Len(index) : index[i].text = call.chunks[p].text

\* the positions of the batch that holds position p
BatchOf(p) ==
    {q \in 1..Len(call.chunks) : (q - 1) \div BatchSize = (p - 1) \div BatchSize}

\* C14: when the embedding or the store of a batch fails, the failure is
\* raised, no chunk of that batch or a later one is stored, every chunk of the
\* earlier batches is stored; and no batch is ever stored in part.
C14_BatchesAtomic ==
    stage = "done" =>
        /\ call.failure # NoFailure =>
              /\ result.raised
              /\ \A p \in 1..Len(call.chunks) :
                    IF p - 1 >= call.failure.at THEN ~StoredNow(p) ELSE StoredNow(p)
        /\ \A p \in 1..Len(call.chunks) :
              \A q \in BatchOf(p) : StoredNow(p) <=> StoredNow(q)

\* C15: the store answers the indexed-URLs query of an incremental run of
\* main (with the metadata URLs of the stored chunks), so the run goes on to
\* scrape with that set.
C15_IndexedUrlsAnswered ==
    (main.incremental /\ ~main.clear) =>
        ~(main.pc = "raised" /\ main.error = "AttributeError")

----------------------------------------------------------------------------
(* Two calls of RAGEngine.query at once, with no lock (rag_engine.py:106-148).
   A call is interrupted only between its statements that touch the cache,
   the index or the generation provider; each such statement is one step. *)

\* the two callers
Callers == {1, 2}

\* two spellings of one question, one for each caller
RaceQuestion(p) == IF p = 1 THEN "Q" ELSE "q "

\* what an earlier call answered, for the cache the two calls may find filled
EarlierAnswer ==
    compose("ab", <<[text |-> "A1", metadata |-> [url |-> SHORT_URL]]>>,
            MaxResponseLength)

\* a call before its first statement
NewCall(p) ==
    [pc |-> "check", cache_key |-> _cache_key(RaceQuestion(p)), chunks |-> <<>>,
     answer |-> "", gen_calls |-> 0, ret |-> "", error |-> "none"]

RaceInit ==
    /\ \E chunks \in SeqsUpTo(AddedPool, MaxAdd) : index = add_chunks(<<>>, chunks)
    /\ now = 0
    /\ \E filled \in BOOLEAN :
          cache = IF filled
                  THEN cache_setitem(<<>>, _cache_key("q"), EarlierAnswer, 0)
                  ELSE <<>>
    /\ last = NoCall
    /\ first = NoFirst
    /\ stage = "idle"
    /\ call = <<>>
    /\ result = <<>>
    /\ scrape = NoScrape
    /\ main = NoMain
    /\ calls = [p \in Callers |-> NewCall(p)]

\* lines 107-108: the key, and "cache_key in self.cache"
CallCheck(p) ==
    /\ calls[p].pc = "check"
    /\ calls' = [calls EXCEPT ![p].pc =
                    IF cache_contains(cache, calls[p].cache_key, now)
                    THEN "read" ELSE "search"]
    /\ UNCHANGED <<engineVars, applyVars, scrape, main>>

\* line 110: "return self.cache[cache_key]"; TTLCache raises KeyError for a
\* key that is absent or whose lifetime has ended
CallRead(p) ==
    /\ calls[p].pc = "read"
    /\ IF cache_contains(cache, calls[p].cache_key, now)
       THEN /\ cache' = cache_getitem(cache, calls[p].cache_key, now).cache
            /\ calls' = [calls EXCEPT
                           ![p].pc = "done",
                           ![p].ret = cache_getitem(cache, calls[p].cache_key,
                                                    now).value]
       ELSE /\ calls' = [calls EXCEPT ![p].pc = "raised",
                                      ![p].error = "KeyError"]
            /\ UNCHANGED cache
    /\ UNCHANGED <<index, now, last, first, applyVars, scrape, main>>

\* lines 113-119: the search, and the fixed message when nothing is found
CallSearch(p) ==
    /\ calls[p].pc = "search"
    /\ \E results \in similarity_search(index, RetrievalK) :
          calls' = IF results = <<>>
                   THEN [calls EXCEPT ![p].pc = "done", ![p].ret = NOT_FOUND]
                   ELSE [calls EXCEPT ![p].pc = "generate",
                                      ![p].chunks = results]
    /\ UNCHANGED <<engineVars, applyVars, scrape, main>>

\* lines 122-143: the generation call, then the answer composed from it
CallGenerate(p) ==
    /\ calls[p].pc = "generate"
    /\ \E answer \in GivenAnswers :
          calls' = [calls EXCEPT
                      ![p].pc = "store",
                      ![p].gen_calls = @ + 1,
                      ![p].answer = compose(answer, calls[p].chunks,
                                            MaxResponseLength)]
    /\ UNCHANGED <<engineVars, applyVars, scrape, main>>

\* lines 146-148: "self.cache[cache_key] = answer; return answer"
CallStore(p) ==
    /\ calls[p].pc = "store"
    /\ cache' = cache_setitem(cache, calls[p].cache_key, calls[p].answer, now)
    /\ calls' = [calls EXCEPT ![p].pc = "done", ![p].ret = calls[p].answer]
    /\ UNCHANGED <<index, now, last, first, applyVars, scrape, main>>

\* time passes between the steps
RaceTick ==
    /\ now < MaxTime
    /\ now' = now + 1
    /\ UNCHANGED <<index, cache, last, first, applyVars, scrape, main, calls>>

RaceNext ==
    \/ \E p \in Callers :
          CallCheck(p) \/ CallRead(p) \/ CallSearch(p) \/ CallGenerate(p)
              \/ CallStore(p)
    \/ RaceTick

RaceSpec == RaceInit /\ [][RaceNext]_vars

\* the strings the two calls have composed so far
Composed == {calls[p].answer : p \in {q \in Callers : calls[q].pc \in {"store", "done"}
                                                       /\ calls[q].gen_calls = 1}}

\* C16: however the two calls interleave, each calls the generation provider
\* at most once; the cache entry of their key is absent or holds the whole
\* string one of them composed (or the one an earlier call left); and each
\* call returns, with its own composed string, the cached one or the
\* not-found message.
C16_RaceBenign ==
    /\ \A p \in Callers : calls[p].gen_calls <= 1
    /\ \A i \in 1..Len(cache) :
          cache[i].value \in Composed \cup {EarlierAnswer}
    /\ \A p \in Callers :
          /\ calls[p].pc # "raised"
          /\ calls[p].pc = "done" =>
                calls[p].ret \in Composed \cup {EarlierAnswer, NOT_FOUND}

----------------------------------------------------------------------------
(* Truncation and failure of the generation in RAGEngine.query *)

\* the citation of a response: the separator and the first non-empty url
Citation(results) ==
    IF HasUrl(results)
    THEN SEPARATOR \o UrlOf(results[FirstWithUrl(results)])
    ELSE ""

\* the room the answer has: the whole budget less the citation
Budget(results) == MaxResponseLength - Len(Citation(results))

\* C17: an answer longer than the room left by the citation is cut so that it
\* ends with the ellipsis and the response is exactly max_response_length
\* long; an answer that fits is left as it is.
C17_TruncationExact ==
    (stage = "done" /\ call.results # <<>>) =>
        IF Len(call.answer) > Budget(call.results)
        THEN /\ Len(result.ret) = MaxResponseLength
             /\ EndsWith(result.ret, ELLIPSIS \o Citation(call.results))
        ELSE result.ret = call.answer \o Citation(call.results)

\* what the generation provider does with one request: an answer, or a
\* failure raised out of client.chat.completions.create
Generations ==
    {[ok |-> FALSE, answer |-> ""]}
    \cup {[ok |-> TRUE, answer |-> a] : a \in GivenAnswers}

\* query storing an empty answer before the failed generation is raised
query_outcome_caching_failure(question, results, generation, c, t) ==
    IF generation.ok \/ cache_contains(c, _cache_key(question), t) \/ results = <<>>
    THEN query(question, results, generation.answer, c, t) @@ [raised |-> FALSE]
    ELSE [ret |-> "", cache |-> cache_setitem(c, _cache_key(question), "", t),
          gen_calls |-> 1, hit |-> FALSE, searched |-> TRUE, raised |-> TRUE]

\* RAGEngine.query with the outcome of the generation: when the cache misses
\* and the search finds chunks, _generate_response is called (line 123); its
\* exception is caught nowhere in query, so the statements after it, the cache
\* store among them, do not run
query_outcome(question, results, generation, c, t) ==
    IF generation.ok \/ cache_contains(c, _cache_key(question), t) \/ results = <<>>
    THEN query(question, results, generation.answer, c, t) @@ [raised |-> FALSE]
    ELSE [ret |-> "", cache |-> c, gen_calls |-> 1, hit |-> FALSE,
          searched |-> TRUE, raised |-> TRUE]

\* routes.ask_question, lines 66-72: the answer of query, or the fixed message
\* for any exception
ERROR_MESSAGE == "Sorry, I encountered an error. Please try again later."

ask_question(outcome) == IF outcome.raised THEN ERROR_MESSAGE ELSE outcome.ret

\* GET /ask twice for one question: the first generation may fail
AskInit ==
    /\ \E chunks \in SeqsUpTo(AddedPool, MaxAdd) : index = add_chunks(<<>>, chunks)
    /\ \E k \in {"none", _cache_key("q"), _cache_key("qq")} :
          cache = IF k = "none" THEN <<>>
                  ELSE cache_setitem(<<>>, k, EarlierAnswer, 0)
    /\ now = 0
    /\ last = NoCall
    /\ first = NoFirst
    /\ scrape = NoScrape
    /\ main = NoMain
    /\ calls = NoCalls
    /\ stage = "ready"
    /\ call \in [question : AskedQuestions, generation : Generations]
    /\ result = <<>>

Ask ==
    /\ stage = "ready"
    /\ \E results \in similarity_search(index, RetrievalK) :
          LET r == query_outcome(call.question, results, call.generation,
                                 cache, now)
          IN  /\ cache' = r.cache
              /\ result' = [query |-> r, response |-> ask_question(r),
                            cache_before |-> cache, cache_after |-> r.cache,
                            again |-> <<>>]
    /\ stage' = "asked"
    /\ UNCHANGED <<index, now, last, first, call, scrape, main, calls>>

AskAgain ==
    /\ stage = "asked"
    /\ \E results \in similarity_search(index, RetrievalK) :
       \E generation \in {g \in Generations : g.ok} :
          LET r == query_outcome(call.question, results, generation, cache, now)
          IN  /\ cache' = r.cache
              /\ result' = [result EXCEPT !.again = <<r>>]
    /\ stage' = "done"
    /\ UNCHANGED <<index, now, last, first, call, scrape, main, calls>>

AskNext == Ask \/ AskAgain

AskSpec == AskInit /\ [][AskNext]_vars

----------------------------------------------------------------------------
(* Pacing and the page limit of a scrape run *)

\* the positions of the trace that hold an event of this kind
EventsAt(kind) == {i \in 1..Len(scrape.trace) : scrape.trace[i].ev = kind}

\* C19: each fetch comes right after the progress callback for its URL, called
\* with the 1-based position, the total and the URL; between two fetches
\* there is exactly one delay, of the configured length; each delay follows a
\* fetch, failed or not; and a finished run over n >= 1 URLs has slept n - 1
\* times, the last event being the last fetch.
C19_Pacing ==
    scrape.pc \in {"loop", "done"} =>
        LET t == scrape.trace
            n == Len(scrape.urls)
        IN  /\ \A i \in EventsAt("fetch") :
                  /\ i > 1
                  /\ t[i - 1] = [ev |-> "progress",
                                 current |-> Cardinality({j \in EventsAt("fetch") : j <= i}),
                                 total |-> n, url |-> t[i].url]
            /\ \A i, j \in EventsAt("fetch") :
                  i < j => \E s \in EventsAt("sleep") : i < s /\ s < j
            /\ \A i, j \in EventsAt("fetch") :
                  (i < j /\ \A m \in EventsAt("fetch") : ~(i < m /\ m < j))
                      => Cardinality({s \in EventsAt("sleep") : i < s /\ s < j}) = 1
            /\ \A s \in EventsAt("sleep") :
                  /\ t[s].seconds = DELAY
                  /\ s > 1 /\ t[s - 1].ev = "fetch"
            /\ (scrape.pc = "done" /\ n >= 1) =>
                  /\ Cardinality(EventsAt("fetch")) = n
                  /\ Cardinality(EventsAt("sleep")) = n - 1
                  /\ t[Len(t)].ev = "fetch"

\* C19 witness: a finished run over three URLs, the second of which failed,
\* slept twice
C19_Witness ==
    /\ scrape.pc = "done"
    /\ Len(scrape.urls) = 3
    /\ Fetches[2].outcome # "ok"
    /\ Cardinality(EventsAt("sleep")) = 2
    /\ Len(scrape.trace) = 8

\* C20: a finished run with a page cap n >= 0 has fetched the first n entries
\* of the filtered, priority-sorted list (all of them when there are fewer),
\* and a run with no cap has fetched every entry.
C20_PageCap ==
    scrape.pc = "done" =>
        LET planned == sort(scrape.filtered)
        IN  IF scrape.max_pages = None
            THEN FetchedUrls = planned
            ELSE /\ Len(FetchedUrls) <= scrape.max_pages[1]
                 /\ FetchedUrls
                       = SubSeq(planned, 1, Min(scrape.max_pages[1], Len(planned)))

----------------------------------------------------------------------------
(* Successive VectorStore.add_chunks calls on one collection, as an initial
   build followed by incremental runs makes them, with VectorStore.clear *)

\* the number of add_chunks calls explored
MaxRuns == 3

\* the chunks the runs add
RunPool ==
    {Chunk("A1", [title |-> "A", url |-> SHORT_URL, section |-> "infobox"]),
     Chunk("B1", [title |-> "B", url |-> LONG_URL, section |-> "Overview"])}

\* the chunks of a call whose batches were stored before the call ended: all
\* of them, or those before the batch that raised
Handed(chunks, failure) ==
    IF failure = NoFailure THEN chunks ELSE SubSeq(chunks, 1, failure.at)

RunsInit ==
    /\ index = <<>>
    /\ cache = <<>>
    /\ now = 0
    /\ last = NoCall
    /\ first = NoFirst
    /\ scrape = NoScrape
    /\ main = NoMain
    /\ calls = NoCalls
    /\ stage = "runs"
    /\ call = [added |-> <<>>, runs |-> 0]
    /\ result = <<>>

\* one add_chunks call; call.added collects the chunks handed to the
\* collection since the last clear
AddCall ==
    /\ stage = "runs"
    /\ call.runs < MaxRuns
    /\ \E chunks \in SeqsUpTo(RunPool, MaxNew) :
          \E f \in Failures(chunks, BatchSize) :
              /\ result' = add_chunks_run(index, chunks, BatchSize, f)
              /\ index' = result'.index
              /\ call' = [added |-> call.added \o Handed(chunks, f),
                          runs |-> call.runs + 1]
    /\ UNCHANGED <<cache, now, last, first, stage, scrape, main, calls>>

\* VectorStore.clear between runs
ClearCall ==
    /\ stage = "runs"
    /\ call.runs > 0
    /\ index' = clear(index)
    /\ call' = [added |-> <<>>, runs |-> call.runs]
    /\ result' = <<>>
    /\ UNCHANGED <<cache, now, last, first, stage, scrape, main, calls>>

RunsNext == AddCall \/ ClearCall

RunsSpec == RunsInit /\ [][RunsNext]_vars

\* C21: after add calls with no clear in between, the stored records are the
\* chunks added, one record for each in the order added, under pairwise
\* distinct ids, and count() is the number of chunks added over all the calls.
C21_IdsOneToOne ==
    stage = "runs" =>
        /\ count(index) = Len(call.added)
        /\ \A i, j \in 1..Len(index) : i # j => index[i].id # index[j].id
        /\ \A p \in 1..Len(call.added) :
              /\ p <= Len(index)
              /\ index[p].text = call.added[p].text
              /\ index[p].metadata = call.added[p].metadata

----------------------------------------------------------------------------
(* GET /ask/json: the answer of query with the sources and the truncated flag *)

\* the literal 400 that the answer's length is compared with (routes.py:102);
\* the default max_response_length is 400 too, and the model scales both alike
TRUNCATED_LENGTH == MaxResponseLength

\* what the generation provider does with one request, for every answer length
JsonGenerations ==
    {[ok |-> FALSE, answer |-> ""]}
    \cup {[ok |-> TRUE, answer |-> a] : a \in Answers}

\* routes.ask_question_json, lines 93-106: the body built from the answer of
\* query and from get_sources, or the 500 for any exception
ask_question_json(q, outcome, found) ==
    IF outcome.raised
    THEN [status |-> 500, detail |-> "Error processing question"]
    ELSE [status |-> 200, question |-> q, answer |-> outcome.ret,
          sources |-> get_sources(found),
          truncated |-> Len(outcome.ret) >= TRUNCATED_LENGTH]

JsonInit ==
    /\ index \in StoredIndexes
    /\ cache = <<>>
    /\ now = 0
    /\ last = NoCall
    /\ first = NoFirst
    /\ scrape = NoScrape
    /\ main = NoMain
    /\ calls = NoCalls
    /\ stage = "ready"
    /\ call \in [question : {"Qq"}, generation : JsonGenerations]
    /\ result = <<>>

\* one request: query searches with retrieval_k, get_sources searches again
\* with its own k
AskJson ==
    /\ stage = "ready"
    /\ \E results \in similarity_search(index, RetrievalK) :
       \E found \in similarity_search(index, SourcesK) :
          LET r == query_outcome(call.question, results, call.generation,
                                 cache, now)
          IN  /\ cache' = r.cache
              /\ result' = [query |-> r, results |-> results,
                            response |-> ask_question_json(call.question, r,
                                                           found)]
    /\ stage' = "done"
    /\ UNCHANGED <<index, now, last, first, call, scrape, main, calls>>

JsonSpec == JsonInit /\ [][AskJson]_vars

\* query cut the generated answer while composing the returned string: the
\* test of line 138 held
Truncated ==
    Len(call.generation.answer)
        > max_answer_len(_get_best_source_url(result.results), MaxResponseLength)

\* the request was answered with a string composed from a generated answer
ComposedReply ==
    /\ stage = "done"
    /\ result.response.status = 200
    /\ result.query.gen_calls = 1

\* C22: in the body of GET /ask/json the truncated flag is true exactly when
\* query cut the generated answer while composing the answer string returned.
C22_TruncatedFlag ==
    ComposedReply => (result.response.truncated <=> Truncated)

====
